---------------------------- MODULE Spec2Model ----------------------------
(***************************************************************************)
(* Crystal Orbital Overlap Population workflow                             *)
(* (src/nac/workflows/workflow_coop.py).                                   *)
(*                                                                         *)
(* Numbers are integers: overlaps are counted in tenths, coefficients and  *)
(* raw energies in units, converted energies in 1e-3 eV.  Vectors and      *)
(* matrices are sequences (of sequences); the VALUES of index lists are    *)
(* 0-based as in numpy, so entry p of a sequence s is s[p + 1].            *)
(***************************************************************************)
EXTENDS Integers, Sequences, FiniteSets, TLC

\* ------------------------------------------------------------------ bounds
MaxAtoms == 2
MaxLevels == 2

\* Hartree -> eV factor, in 1e-3 eV per Hartree.
H2EV == 27211

\* number of spherical functions an atom may carry
SphValues == {1, 2}
MaxAO == MaxAtoms * 2

\* atom labels of the geometry, element labels of config["coop_elements"]
AtomLabels == { <<"c", "d">>, <<"s", "e">>, <<"C", "d">> }
ElementLabels == { <<"C">>, <<"S", "e">>, <<"d">> }

OverlapKinds == {"sym", "asym"}
CoefficientKinds == {"ones", "identity", "generic"}

\* ----------------------------------------------------------------- helpers
RECURSIVE SumSeq(_)
SumSeq(s) == IF s = <<>> THEN 0 ELSE Head(s) + SumSeq(Tail(s))

RECURSIVE Flatten(_)
Flatten(rows) == IF rows = <<>> THEN <<>> ELSE Head(rows) \o Flatten(Tail(rows))

\* str.lower(), character by character
LowerChar(ch) ==
    CASE ch = "C" -> "c"
      [] ch = "S" -> "s"
      [] ch = "D" -> "d"
      [] ch = "E" -> "e"
      [] OTHER -> ch

Lower(s) == [i \in 1..Len(s) |-> LowerChar(s[i])]

\* Python's `sub in s` on strings
Contains(sub, s) ==
    \E i \in 0..(Len(s) - Len(sub)) : SubSeq(s, i + 1, i + Len(sub)) = sub

\* ------------------------------------------------------ external providers
\* compute_matrix_multipole(mol, config, 'overlap'): an n x n matrix, tenths
OverlapEntry(kind, p, q) ==
    IF kind = "sym"
    THEN IF p = q THEN 10 ELSE 3 + p * q
    ELSE 7 * p + q + 4

Overlap(kind, n) == [p \in 1..n |-> [q \in 1..n |-> OverlapEntry(kind, p - 1, q - 1)]]

\* the datasets stored under .../cp2k/mo/coefficients and .../eigenvalues
NLevels(kind) ==
    CASE kind = "ones" -> 1
      [] kind = "identity" -> 2
      [] OTHER -> MaxLevels

NRows(kind) == IF kind = "identity" THEN 2 ELSE MaxAO

CoefficientEntry(kind, p, k) ==
    CASE kind = "ones" -> 1
      [] kind = "identity" -> IF p = k THEN 1 ELSE 0
      [] OTHER -> ((2 * p + 3 * k + 1) % 5) - 2

Coefficients(kind) ==
    [p \in 1..NRows(kind) |-> [k \in 1..NLevels(kind) |-> CoefficientEntry(kind, p - 1, k - 1)]]

\* raw eigenvalues in Hartree, not sorted
Eigenvalues(kind) ==
    [k \in 1..NLevels(kind) |-> IF k % 2 = 1 THEN k + 1 ELSE -k]

\* ------------------------------------------------- get_eigenvalues_coefficients
\* energies * h2ev
h2ev(energies) == [k \in 1..Len(energies) |-> energies[k] * H2EV]

\* --------------------------------------- compute_overlap_and_atomic_orbitals
\* [i for i, s in enumerate(mol) if element.lower() in s], from position i on
RECURSIVE element_index_from(_, _, _)
element_index_from(element, mol, i) ==
    IF i > Len(mol) THEN <<>>
    ELSE (IF Contains(Lower(element), mol[i]) THEN <<i - 1>> ELSE <<>>)
         \o element_index_from(element, mol, i + 1)

element_index(element, mol) == element_index_from(element, mol, 1)

\* np.cumsum(sphericals)
cumsum(sphericals) ==
    [i \in 1..Len(sphericals) |-> SumSeq(SubSeq(sphericals, 1, i))]

\* a variant of atom_indices that fills atom_indices[:-1] instead of [1:]
atom_indices_shifted(sphericals) == cumsum(sphericals) \o <<0>>

\* atom_indices = zeros(len(mol) + 1); atom_indices[1:] = cumsum(sphericals)
atom_indices(sphericals) == <<0>> \o cumsum(sphericals)

\* [np.arange(sphericals[i]) + atom_indices[i] for i in element_index]
orbital_rows(index, sphericals) ==
    [a \in 1..Len(index) |->
        [j \in 1..sphericals[index[a] + 1] |->
            (j - 1) + atom_indices(sphericals)[index[a] + 1]]]

Rectangular(rows) == \A a \in 1..Len(rows) : Len(rows[a]) = Len(rows[1])

\* np.reshape(rows, n) of a non-empty list of 1-d integer arrays.  A ragged
\* list cannot become an integer array: numpy >= 1.24 raises ValueError,
\* older builds (legacy) make a 1-d array of objects first and reshape that.
reshape(rows, n, legacy) ==
    IF Rectangular(rows)
    THEN IF Len(rows) * Len(rows[1]) = n
         THEN [err |-> "none", dtype |-> "int", val |-> Flatten(rows)]
         ELSE [err |-> "ValueError", dtype |-> "int", val |-> <<>>]
    ELSE IF legacy /\ Len(rows) = n
         THEN [err |-> "none", dtype |-> "object", val |-> rows]
         ELSE [err |-> "ValueError", dtype |-> "object", val |-> <<>>]

\* lines 124-127 (129-132): the flat orbital index array of one element;
\* element_index[0] of an empty list is an IndexError
orbital_ind(index, sphericals, legacy) ==
    IF index = <<>>
    THEN [err |-> "IndexError", dtype |-> "int", val |-> <<>>]
    ELSE reshape(orbital_rows(index, sphericals),
                 Len(index) * sphericals[index[1] + 1], legacy)

\* matrix[ind, :]
select_rows(matrix, ind) == [a \in 1..Len(ind) |-> matrix[ind[a] + 1]]

\* matrix[:, ind]
select_columns(matrix, ind) ==
    [a \in 1..Len(matrix) |-> [b \in 1..Len(ind) |-> matrix[a][ind[b] + 1]]]

\* a variant of overlap_reduce that selects rows by the second index list
\* and columns by the first
overlap_reduce_swapped(overlap, ind1, ind2) ==
    select_columns(select_rows(overlap, ind2), ind1)

\* overlap_reduced = overlap[el_1_orbital_ind, :]
\* overlap_reduced = overlap_reduced[:, el_2_orbital_ind]
overlap_reduce(overlap, ind1, ind2) == select_columns(select_rows(overlap, ind1), ind2)

InRange(ind, n) == \A a \in 1..Len(ind) : ind[a] < n

Failure(e, i1, i2) ==
    [err |-> e, element_1_index |-> i1, element_2_index |-> i2,
     el_1_orbital_ind |-> <<>>, el_2_orbital_ind |-> <<>>, overlap_reduced |-> <<>>]

\* the body of compute_overlap_and_atomic_orbitals after the two external
\* calls returned overlap and sphericals
compute_overlap_and_atomic_orbitals(mol, elements, overlap, sphericals, legacy) ==
    LET i1 == element_index(elements[1], mol)
        i2 == element_index(elements[2], mol)
        o1 == orbital_ind(i1, sphericals, legacy)
        o2 == orbital_ind(i2, sphericals, legacy)
    IN  IF o1.err # "none" THEN Failure(o1.err, i1, i2)
        ELSE IF o2.err # "none" THEN Failure(o2.err, i1, i2)
        ELSE IF o1.dtype # "int" \/ ~InRange(o1.val, Len(overlap))
             THEN Failure("IndexError", i1, i2)
        ELSE IF o2.dtype # "int" \/ ~InRange(o2.val, Len(overlap))
             THEN Failure("IndexError", i1, i2)
        ELSE [err |-> "none", element_1_index |-> i1, element_2_index |-> i2,
              el_1_orbital_ind |-> o1.val, el_2_orbital_ind |-> o2.val,
              overlap_reduced |-> overlap_reduce(overlap, o1.val, o2.val)]

\* ------------------------------------------------------------- compute_coop
\* a variant of weighted_outer that leaves out the overlap
outer_unweighted(c1, c2, overlap_reduced) ==
    [a \in 1..Len(c1) |-> [b \in 1..Len(c2) |-> c1[a] * c2[b]]]

\* np.tensordot(c1, c2, 0) * overlap_reduced
weighted_outer(c1, c2, overlap_reduced) ==
    [a \in 1..Len(c1) |-> [b \in 1..Len(c2) |-> (c1[a] * c2[b]) * overlap_reduced[a][b]]]

\* a variant of coop_func that leaves out the coefficients of element 2
coop_func_without_c2(column, overlap_reduced, ind1, ind2) ==
    LET c1 == [a \in 1..Len(ind1) |-> column[ind1[a] + 1]]
        c2 == [b \in 1..Len(ind2) |-> 1]
    IN  SumSeq(Flatten(weighted_outer(c1, c2, overlap_reduced)))

\* coop_func on one column of the coefficient matrix
coop_func(column, overlap_reduced, ind1, ind2) ==
    LET c1 == [a \in 1..Len(ind1) |-> column[ind1[a] + 1]]
        c2 == [b \in 1..Len(ind2) |-> column[ind2[b] + 1]]
    IN  SumSeq(Flatten(weighted_outer(c1, c2, overlap_reduced)))

Column(matrix, k) == [p \in 1..Len(matrix) |-> matrix[p][k]]

\* np.apply_along_axis(coop_func, 0, atomic_orbitals, ...)
compute_coop(atomic_orbitals, overlap_reduced, ind1, ind2) ==
    [k \in 1..Len(atomic_orbitals[1]) |->
        coop_func(Column(atomic_orbitals, k), overlap_reduced, ind1, ind2)]

\* --------------------------------------------------------------- print_coop
\* a variant of print_coop that sorts the rows by energy
print_coop_sorted(energies, coop) ==
    IF Len(energies) = Len(coop)
    THEN [err |-> "none",
          table |-> SortSeq([k \in 1..Len(coop) |-> <<energies[k], coop[k]>>],
                            LAMBDA x, y : x[1] < y[1])]
    ELSE [err |-> "ValueError", table |-> <<>>]

\* result_coop = zeros((len(coop), 2)); result_coop[:, 0], [:, 1] = energies, coop
\* (a length-1 energy vector is broadcast, any other mismatch is a ValueError)
print_coop(energies, coop) ==
    IF Len(energies) = Len(coop)
    THEN [err |-> "none", table |-> [k \in 1..Len(coop) |-> <<energies[k], coop[k]>>]]
    ELSE IF Len(energies) = 1
    THEN [err |-> "none", table |-> [k \in 1..Len(coop) |-> <<energies[1], coop[k]>>]]
    ELSE [err |-> "ValueError", table |-> <<>>]

\* ------------------------------------------------------------------- state
VARIABLES
    pc,                \* the statement of the workflow that runs next
    err,               \* the exception that ended the run, or "none"
    log,               \* the calls made so far, in order
    coop_elements,     \* config["coop_elements"]
    hdf5,              \* which of the two datasets the store holds
    complete_at_start, \* whether the store held both datasets at the start
    mo_kind,           \* which stored datasets were retrieved
    atomic_orbitals,   \* the coefficient matrix, N_AO x N_levels
    energies,          \* the energies in eV
    mol,               \* the atom labels of the geometry
    sphericals,        \* number of spherical functions per atom
    overlap,           \* the full overlap matrix
    element_1_index, element_2_index,
    el_1_orbital_ind, el_2_orbital_ind,
    overlap_reduced,
    coop,
    result_coop,       \* the table the workflow returns
    coop_txt           \* the content of COOP.txt, NoFile until written

vars == <<pc, err, log, coop_elements, hdf5, complete_at_start, mo_kind, atomic_orbitals,
          energies, mol, sphericals, overlap, element_1_index, element_2_index,
          el_1_orbital_ind, el_2_orbital_ind, overlap_reduced, coop, result_coop,
          coop_txt>>

\* nothing returned yet, COOP.txt not written yet
NoTable == [returned |-> FALSE, table |-> <<>>]
NoFile == [exists |-> FALSE, rows |-> <<>>]

Mols == UNION { [1..n -> AtomLabels] : n \in 1..MaxAtoms }

\* the statements of workflow_crystal_orbital_overlap_population, in order
Stages == <<"initialize", "check", "retrieve", "readXYZ", "overlap", "coop", "print", "done">>

StageNo(stage) == CHOOSE i \in 1..Len(Stages) : Stages[i] = stage

\* a variant of After in which an exception of compute_coop is caught and
\* the workflow goes on
AfterCaught(stage, e) ==
    IF e # "none" /\ stage # "coop" THEN "failed" ELSE Stages[StageNo(stage) + 1]

\* an exception raised by a statement leaves the workflow (there is no
\* try/except); otherwise the next statement runs
After(stage, e) == IF e # "none" THEN "failed" ELSE Stages[StageNo(stage) + 1]

\* a variant of needs_single_point that tests any(...) instead of all(...)
needs_single_point_any(predicate_1, predicate_2) == ~(predicate_1 \/ predicate_2)

\* `if all((predicate_1, predicate_2)) ... else: workflow_single_points(config)`
needs_single_point(predicate_1, predicate_2) == ~(predicate_1 /\ predicate_2)

Init ==
    /\ pc = "initialize"
    /\ err = "none"
    /\ log = <<>>
    /\ coop_elements \in ElementLabels \X ElementLabels
    /\ hdf5 \in [coefficients : BOOLEAN, eigenvalues : BOOLEAN]
    /\ complete_at_start = (hdf5.coefficients /\ hdf5.eigenvalues)
    /\ mo_kind = "none"
    /\ atomic_orbitals = <<>>
    /\ energies = <<>>
    /\ mol = <<>>
    /\ sphericals = <<>>
    /\ overlap = <<>>
    /\ element_1_index = <<>>
    /\ element_2_index = <<>>
    /\ el_1_orbital_ind = <<>>
    /\ el_2_orbital_ind = <<>>
    /\ overlap_reduced = <<>>
    /\ coop = <<>>
    /\ result_coop = NoTable
    /\ coop_txt = NoFile

\* config.update(initialize(config))
Initialize ==
    /\ pc = "initialize"
    /\ \E e \in {"none", "ConfigurationError"} :
        /\ pc' = After("initialize", e)
        /\ err' = e
    /\ log' = Append(log, "initialize")
    /\ UNCHANGED <<coop_elements, hdf5, complete_at_start, mo_kind, atomic_orbitals, energies,
                   mol, sphericals, overlap, element_1_index, element_2_index,
                   el_1_orbital_ind, el_2_orbital_ind, overlap_reduced, coop,
                   result_coop, coop_txt>>

\* check_hdf5_for_eigenvalues_coefficients(config): the single point run
\* stores both datasets, returns without storing them, or raises
CheckHdf5 ==
    /\ pc = "check"
    /\ IF needs_single_point(hdf5.coefficients, hdf5.eigenvalues)
       THEN /\ log' = log \o <<"check", "single_point">>
            /\ \E outcome \in {"stored", "not stored", "raised"} :
                /\ hdf5' = IF outcome = "stored"
                           THEN [coefficients |-> TRUE, eigenvalues |-> TRUE]
                           ELSE hdf5
                /\ err' = IF outcome = "raised" THEN "RuntimeError" ELSE "none"
                /\ pc' = After("check", err')
       ELSE /\ log' = Append(log, "check")
            /\ pc' = After("check", "none")
            /\ UNCHANGED <<hdf5, err>>
    /\ UNCHANGED <<coop_elements, complete_at_start, mo_kind, atomic_orbitals, energies,
                   mol, sphericals, overlap, element_1_index, element_2_index,
                   el_1_orbital_ind, el_2_orbital_ind, overlap_reduced, coop,
                   result_coop, coop_txt>>

\* get_eigenvalues_coefficients(config): retrieve_hdf5_data raises on a
\* dataset the store does not hold
GetEigenvaluesCoefficients ==
    /\ pc = "retrieve"
    /\ log' = Append(log, "retrieve")
    /\ IF hdf5.coefficients /\ hdf5.eigenvalues
       THEN \E kind \in CoefficientKinds :
                /\ mo_kind' = kind
                /\ atomic_orbitals' = Coefficients(kind)
                /\ energies' = h2ev(Eigenvalues(kind))
                /\ pc' = After("retrieve", "none")
                /\ UNCHANGED err
       ELSE /\ err' = "KeyError"
            /\ pc' = After("retrieve", err')
            /\ UNCHANGED <<mo_kind, atomic_orbitals, energies>>
    /\ UNCHANGED <<coop_elements, hdf5, complete_at_start,
                   mol, sphericals, overlap, element_1_index, element_2_index,
                   el_1_orbital_ind, el_2_orbital_ind, overlap_reduced, coop,
                   result_coop, coop_txt>>

\* mol = readXYZ(config["path_traj_xyz"])
ReadXYZ ==
    /\ pc = "readXYZ"
    /\ log' = Append(log, "readXYZ")
    /\ \/ \E m \in Mols :
            /\ mol' = m
            /\ pc' = After("readXYZ", "none")
            /\ UNCHANGED err
       \/ /\ err' = "FileNotFoundError"
          /\ pc' = After("readXYZ", err')
          /\ UNCHANGED mol
    /\ UNCHANGED <<coop_elements, hdf5, complete_at_start, mo_kind, atomic_orbitals, energies,
                   sphericals, overlap, element_1_index, element_2_index,
                   el_1_orbital_ind, el_2_orbital_ind, overlap_reduced, coop,
                   result_coop, coop_txt>>

\* compute_overlap_and_atomic_orbitals(mol, config)
ComputeOverlapAndAtomicOrbitals ==
    /\ pc = "overlap"
    /\ log' = Append(log, "overlap")
    /\ \/ \E kind \in OverlapKinds, sph \in [1..Len(mol) -> SphValues], legacy \in BOOLEAN :
            LET S == Overlap(kind, SumSeq(sph))
                r == compute_overlap_and_atomic_orbitals(mol, coop_elements, S, sph, legacy)
            IN  /\ overlap' = S
                /\ sphericals' = sph
                /\ element_1_index' = r.element_1_index
                /\ element_2_index' = r.element_2_index
                /\ el_1_orbital_ind' = r.el_1_orbital_ind
                /\ el_2_orbital_ind' = r.el_2_orbital_ind
                /\ overlap_reduced' = r.overlap_reduced
                /\ err' = r.err
                /\ pc' = After("overlap", r.err)
       \/ \* number_spherical_functions_per_atom finds no basis entry
          /\ err' = "ConfigurationError"
          /\ pc' = After("overlap", err')
          /\ UNCHANGED <<overlap, sphericals, element_1_index, element_2_index,
                         el_1_orbital_ind, el_2_orbital_ind, overlap_reduced>>
    /\ UNCHANGED <<coop_elements, hdf5, complete_at_start, mo_kind, atomic_orbitals, energies,
                   mol, coop, result_coop, coop_txt>>

\* coop = compute_coop(atomic_orbitals, overlap_reduced, el_1_orbital_ind,
\* el_2_orbital_ind): an index beyond the rows of the matrix is an IndexError
ComputeCoop ==
    /\ pc = "coop"
    /\ log' = Append(log, "coop")
    /\ IF /\ InRange(el_1_orbital_ind, Len(atomic_orbitals))
          /\ InRange(el_2_orbital_ind, Len(atomic_orbitals))
       THEN /\ coop' = compute_coop(atomic_orbitals, overlap_reduced,
                                    el_1_orbital_ind, el_2_orbital_ind)
            /\ pc' = After("coop", "none")
            /\ UNCHANGED err
       ELSE /\ err' = "IndexError"
            /\ pc' = After("coop", err')
            /\ UNCHANGED coop
    /\ UNCHANGED <<coop_elements, hdf5, complete_at_start, mo_kind, atomic_orbitals, energies,
                   mol, sphericals, overlap, element_1_index, element_2_index,
                   el_1_orbital_ind, el_2_orbital_ind, overlap_reduced,
                   result_coop, coop_txt>>

\* result_coop = print_coop(energies, coop); return result_coop
PrintCoop ==
    /\ pc = "print"
    /\ log' = Append(log, "print")
    /\ LET r == print_coop(energies, coop)
       IN  IF r.err # "none"
           THEN /\ err' = r.err
                /\ pc' = After("print", err')
                /\ UNCHANGED <<result_coop, coop_txt>>
           ELSE \/ /\ coop_txt' = [exists |-> TRUE, rows |-> r.table]
                   /\ result_coop' = [returned |-> TRUE, table |-> r.table]
                   /\ pc' = After("print", "none")
                   /\ UNCHANGED err
                \/ \* np.savetxt cannot write COOP.txt
                   /\ err' = "OSError"
                   /\ pc' = After("print", err')
                   /\ UNCHANGED <<result_coop, coop_txt>>
    /\ UNCHANGED <<coop_elements, hdf5, complete_at_start, mo_kind, atomic_orbitals, energies,
                   mol, sphericals, overlap, element_1_index, element_2_index,
                   el_1_orbital_ind, el_2_orbital_ind, overlap_reduced, coop>>

Next ==
    \/ Initialize
    \/ CheckHdf5
    \/ GetEigenvaluesCoefficients
    \/ ReadXYZ
    \/ ComputeOverlapAndAtomicOrbitals
    \/ ComputeCoop
    \/ PrintCoop

Spec == Init /\ [][Next]_vars

\* ================================================================== claims
InLog(call) == \E i \in 1..Len(log) : log[i] = call

\* the workflow got as far as `stage`: every earlier statement returned
Reached(stage) == pc = stage \/ InLog(stage)

\* compute_overlap_and_atomic_orbitals got past its two external calls
Selected == InLog("overlap") /\ sphericals # <<>>

Transpose(matrix) ==
    [b \in 1..Len(matrix[1]) |-> [a \in 1..Len(matrix) |-> matrix[a][b]]]

IsSymmetric(matrix) ==
    \A p, q \in 1..Len(matrix) : matrix[p][q] = matrix[q][p]

\* sum over a and b of C[idx1[a], k] * C[idx2[b], k] * R[a, b]
PairSum(C, R, idx1, idx2, k) ==
    SumSeq([a \in 1..Len(idx1) |->
        SumSeq([b \in 1..Len(idx2) |->
            C[idx1[a] + 1][k] * C[idx2[b] + 1][k] * R[a][b]])])

\* C1: compute_coop returns one entry per column of the coefficient matrix and
\* entry k is the sum over a, b of C[idx1[a], k] * C[idx2[b], k] * R[a, b];
\* one orbital per element with coefficients 1 and R = [[0.5]] gives 0.5, and
\* coefficients [[1, 0], [0, 1]] with R = [[0.3]] give [0, 0].
C1_CoopIsWeightedPairSum ==
    Reached("print") =>
        /\ Len(coop) = Len(atomic_orbitals[1])
        /\ \A k \in 1..Len(coop) :
            coop[k] = PairSum(atomic_orbitals, overlap_reduced,
                              el_1_orbital_ind, el_2_orbital_ind, k)
        /\ ( /\ Len(el_1_orbital_ind) = 1
             /\ Len(el_2_orbital_ind) = 1
             /\ atomic_orbitals[el_1_orbital_ind[1] + 1][1] = 1
             /\ atomic_orbitals[el_2_orbital_ind[1] + 1][1] = 1
             /\ overlap_reduced = << <<5>> >> ) => coop[1] = 5
        /\ ( /\ atomic_orbitals = << <<1, 0>>, <<0, 1>> >>
             /\ el_1_orbital_ind = <<0>>
             /\ el_2_orbital_ind = <<1>>
             /\ overlap_reduced = << <<3>> >> ) => coop = <<0, 0>>

C1_Witness ==
    /\ Reached("print")
    /\ Len(el_1_orbital_ind) >= 2
    /\ Len(el_2_orbital_ind) >= 1
    /\ el_1_orbital_ind # el_2_orbital_ind
    /\ Len(coop) >= 2
    /\ coop[1] # 0
    /\ coop[2] # 0
    /\ coop[1] # coop[2]

\* C2: when the atoms matched by one of the two labels do not all have the
\* same sphericals value, compute_overlap_and_atomic_orbitals fails with
\* ConfigurationError and returns nothing.  (Stated for labels that each
\* match an atom, so that the mixed values are the only defect of the input.)
Mixed(index) ==
    \E a, b \in 1..Len(index) : sphericals[index[a] + 1] # sphericals[index[b] + 1]

C2_MixedSphericalsRaiseConfigurationError ==
    ( /\ Selected
      /\ element_1_index # <<>>
      /\ element_2_index # <<>>
      /\ (Mixed(element_1_index) \/ Mixed(element_2_index)) ) =>
        /\ err = "ConfigurationError"
        /\ el_1_orbital_ind = <<>>
        /\ el_2_orbital_ind = <<>>
        /\ overlap_reduced = <<>>

\* C3: when one of the two labels matches no atom,
\* compute_overlap_and_atomic_orbitals fails with SelectionError and produces
\* no reduced overlap matrix.  (Stated for matched atoms of uniform
\* sphericals, so that the empty match is the only defect of the input.)
C3_NoMatchRaisesSelectionError ==
    ( /\ Selected
      /\ (element_1_index = <<>> \/ element_2_index = <<>>)
      /\ ~Mixed(element_1_index)
      /\ ~Mixed(element_2_index) ) =>
        /\ err = "SelectionError"
        /\ overlap_reduced = <<>>

\* the indices i, in increasing order, of the atoms whose label contains
\* `label` when letter case is ignored on both sides
RECURSIVE CaseInsensitiveMatches(_, _, _)
CaseInsensitiveMatches(label, atoms, i) ==
    IF i > Len(atoms) THEN <<>>
    ELSE (IF Contains(Lower(label), Lower(atoms[i])) THEN <<i - 1>> ELSE <<>>)
         \o CaseInsensitiveMatches(label, atoms, i + 1)

\* C4: the matched atom indices of each label are exactly the indices i, in
\* increasing order, such that the label is a substring of atom label i when
\* compared case-insensitively, whatever the case of either.
C4_MatchIsCaseInsensitiveSubstring ==
    Selected =>
        /\ element_1_index = CaseInsensitiveMatches(coop_elements[1], mol, 1)
        /\ element_2_index = CaseInsensitiveMatches(coop_elements[2], mol, 1)

\* C5: the reduced overlap matrix has shape (len(idx1), len(idx2)) and its
\* entry (a, b) is S[idx1[a], idx2[b]].
C5_ReducedOverlapIsSelection ==
    Reached("coop") =>
        /\ InRange(el_1_orbital_ind, Len(overlap))
        /\ InRange(el_2_orbital_ind, Len(overlap))
        /\ Len(overlap_reduced) = Len(el_1_orbital_ind)
        /\ \A a \in 1..Len(overlap_reduced) :
            Len(overlap_reduced[a]) = Len(el_2_orbital_ind)
        /\ \A a \in 1..Len(el_1_orbital_ind), b \in 1..Len(el_2_orbital_ind) :
            overlap_reduced[a][b] = overlap[el_1_orbital_ind[a] + 1][el_2_orbital_ind[b] + 1]

C5_Witness ==
    /\ Reached("coop")
    /\ ~IsSymmetric(overlap)
    /\ Len(el_1_orbital_ind) = 2
    /\ Len(el_2_orbital_ind) = 1
    /\ el_2_orbital_ind[1] < el_1_orbital_ind[1]

\* C6: the single point calculation is invoked exactly once, before the
\* retrieval, when a dataset is absent at the start and never when both are
\* present; the retrieval follows the existence check and precedes the
\* overlap and COOP computations.
Positions(call) == {i \in 1..Len(log) : log[i] = call}

C6_SinglePointOnceBeforeRetrieval ==
    /\ Cardinality(Positions("single_point")) =
          IF InLog("check") /\ ~complete_at_start THEN 1 ELSE 0
    /\ Cardinality(Positions("retrieve")) <= 1
    /\ \A j \in Positions("retrieve") :
          /\ \E i \in Positions("check") : i < j
          /\ \A i \in Positions("single_point") : i < j
    /\ \A j \in Positions("overlap") \cup Positions("coop") :
          \E i \in Positions("retrieve") : i < j
    /\ (atomic_orbitals # <<>> \/ energies # <<>>) => InLog("retrieve")

C6_Witness ==
    /\ pc = "done"
    /\ ~complete_at_start
    /\ InLog("single_point")

\* C7: a failure of any stage ends the run at once: no later stage runs,
\* COOP.txt is not written and no table is returned; COOP.txt is written
\* only when every earlier stage completed without error.
C7_FailureEndsTheRun ==
    /\ err # "none" =>
          /\ pc = "failed"
          /\ ~ENABLED Next
          /\ ~coop_txt.exists
          /\ ~result_coop.returned
    /\ pc = "failed" => err # "none"
    /\ (coop_txt.exists \/ result_coop.returned) =>
          /\ err = "none"
          /\ pc = "done"
          /\ \A i \in 1..(Len(Stages) - 1) : InLog(Stages[i])

C7_Witness ==
    /\ pc = "failed"
    /\ err = "IndexError"
    /\ log[Len(log)] = "coop"
    /\ overlap_reduced # <<>>

\* C8: for a symmetric overlap matrix, the COOP computed with the two
\* elements swapped (index lists exchanged, reduced matrix transposed) is the
\* same at every level.
C8_SwapSymmetry ==
    Reached("print") =>
        /\ compute_coop(atomic_orbitals, Transpose(overlap_reduced),
                        el_2_orbital_ind, el_1_orbital_ind) = coop
        /\ IsSymmetric(overlap) =>
              compute_coop(atomic_orbitals,
                           overlap_reduce(overlap, el_2_orbital_ind, el_1_orbital_ind),
                           el_2_orbital_ind, el_1_orbital_ind) = coop

C8_Witness ==
    /\ Reached("print")
    /\ IsSymmetric(overlap)
    /\ Len(el_1_orbital_ind) # Len(el_2_orbital_ind)
    /\ \E k \in 1..Len(coop) : coop[k] # 0

\* C9: print_coop returns and writes a table of N_levels rows and 2 columns
\* whose row k is (energy k in eV, coop[k]), in the original level order.
C9_TableRowsAreEnergyCoop ==
    pc = "done" =>
        /\ result_coop.returned
        /\ coop_txt.exists
        /\ coop_txt.rows = result_coop.table
        /\ Len(result_coop.table) = NLevels(mo_kind)
        /\ Len(coop) = NLevels(mo_kind)
        /\ \A k \in 1..NLevels(mo_kind) :
              result_coop.table[k] = <<Eigenvalues(mo_kind)[k] * H2EV, coop[k]>>

C9_Witness ==
    /\ pc = "done"
    /\ Len(result_coop.table) >= 2
    /\ result_coop.table[1][1] > result_coop.table[2][1]
    /\ result_coop.table[1][2] # result_coop.table[2][2]

\* offset[i] = sphericals[0] + ... + sphericals[i-1]
Offset(i) == SumSeq(SubSeq(sphericals, 1, i))

\* the number of orbitals of the matched atoms before position a
Before(index, a) == SumSeq([c \in 1..(a - 1) |-> sphericals[index[c] + 1]])

IsConcatenatedRanges(ind, index) ==
    /\ Len(ind) = Before(index, Len(index) + 1)
    /\ \A a \in 1..Len(index) : \A t \in 0..(sphericals[index[a] + 1] - 1) :
          ind[Before(index, a) + t + 1] = Offset(index[a]) + t
    /\ ~Mixed(index) => Len(ind) = Len(index) * sphericals[index[1] + 1]
    /\ \A x \in 1..Len(ind) : ind[x] < Offset(Len(mol))

\* C10: the offset table has N_atoms + 1 entries, starts at 0, grows by
\* sphericals[i] and ends at the number of atomic orbitals; each orbital index
\* list is the concatenation, in match order, of the ranges offset[i] ..
\* offset[i] + sphericals[i] - 1 of its matched atoms, of length
\* (matched atoms) * (their sphericals value), every index below offset[N_atoms].
C10_OffsetsAndOrbitalRanges ==
    /\ Selected =>
          LET table == atom_indices(sphericals)
          IN  /\ Len(table) = Len(mol) + 1
              /\ \A i \in 0..Len(mol) : table[i + 1] = Offset(i)
              /\ \A i \in 1..Len(mol) : table[i] <= table[i + 1]
              /\ table[Len(mol) + 1] = SumSeq(sphericals)
    /\ Reached("coop") =>
          /\ IsConcatenatedRanges(el_1_orbital_ind, element_1_index)
          /\ IsConcatenatedRanges(el_2_orbital_ind, element_2_index)

C10_Witness ==
    /\ Reached("coop")
    /\ Len(element_1_index) = 1
    /\ element_1_index[1] > 0
    /\ Len(el_1_orbital_ind) = 2
    /\ Len(element_2_index) = 2

=============================================================================
